---- MODULE Spec2Model ----
(***************************************************************************)
(* Model of the ola-fintech backend core: the credit eligibility engine    *)
(* (AppService), the OTP engine (UserService.send_otp / verify_otp) and    *)
(* the MongoDB collections they read and write.  Every handler is an       *)
(* asyncio coroutine: it runs atomically between two awaits, and other     *)
(* requests interleave at each await.  One action models one such segment. *)
(***************************************************************************)
EXTENDS Integers, Sequences, FiniteSets

\* ---------------------------------------------------------------- bounds
NumProcs == 2          \* concurrent request handlers
MaxCalls == 3          \* handler invocations in one behaviour
MaxCredits == 2        \* documents in the credit collection
MaxTicks == 2          \* clock advances in one behaviour
TicksPerDay == 2       \* clock resolution: ticks in one day
MaxPage == 3           \* largest page number asked of the user listing
MaxLimit == 2          \* largest page size asked of the user listing

\* ------------------------------------------------------ program constants
CooldownDays == 180    \* timedelta(days=180) in create_credit_request
StatusWindowDays == 180 \* timedelta(days=180) in get_credit
ExtensionGraceDays == 1 \* timedelta(days=1) in request_extension_credit_payment
QueryLimit == 100      \* limit: int = 100 in CreditRepository.query
MessageLimit == 100    \* limit: int = 100 in MessageRepository.filter_messages

\* ------------------------------------------------------------ input sets
Procs == 1..NumProcs
Uids == {"u1", "u2"}
Statuses == {"pending", "rejected", "active", "paid", "extended"}
StartDay == CooldownDays + 20
StartTick == StartDay * TicksPerDay
\* what a caller posts as (otpTimeStamp, fechaCuota): the stamp in days before
\* the initial clock, the due date as a day number.  The code never reads
\* the two fields together, so they are varied together.
Stamps == { <<CooldownDays, StartDay>>, <<CooldownDays - 1, StartDay + 1>> }

VARIABLES
  credits,   \* the credit collection: sequence of documents, _id = position
  otps,      \* the otp collection: sequence of documents
  now,       \* the wall clock (datetime.now()), in ticks
  calls,     \* number of handler invocations so far
  proc,      \* per handler: position, arguments, locals
  resp,      \* what the step just taken returned or raised to its caller
  outbox     \* the messages handed to the SMS gateway, oldest first

vars == <<credits, otps, now, calls, proc, resp, outbox>>

\* ------------------------------------------------- strings and datetimes
\* Python/MongoDB string comparison a >= b: lexicographic, a proper prefix
\* is smaller.
RECURSIVE StrGte(_, _)
StrGte(a, b) ==
  IF b = <<>> THEN TRUE
  ELSE IF a = <<>> THEN FALSE
  ELSE IF Head(a) > Head(b) THEN TRUE
  ELSE IF Head(a) < Head(b) THEN FALSE
  ELSE StrGte(Tail(a), Tail(b))

\* datetime.isoformat(): fixed-width, zero-padded fields, most significant
\* first (date digits, then the time of day).
IsoFormat(t) ==
  LET d == t \div TicksPerDay
  IN <<(d \div 100) % 10, (d \div 10) % 10, d % 10, t % TicksPerDay>>

\* A due date as the client writes it, day/month/year: digits of the date,
\* no time of day.
DateStr(d) == <<(d \div 100) % 10, (d \div 10) % 10, d % 10>>

\* datetime.strptime(s, "%d/%m/%Y"): the date at midnight.
Strptime(s) == (s[1] * 100 + s[2] * 10 + s[3]) * TicksPerDay

Timedelta(days) == days * TicksPerDay

\* ------------------------------------------------------------- documents
NoCredit == [uid |-> "", status |-> "None", otpTimeStamp |-> <<>>,
             fechaCuota |-> <<>>, extensionRequested |-> "None",
             montoAprobado |-> "None"]

\* CreditRequestData as a caller may post it
CreditInputs ==
  { [uid |-> u, status |-> s,
     otpTimeStamp |-> IsoFormat(StartTick - Timedelta(st[1])),
     fechaCuota |-> DateStr(st[2]),
     extensionRequested |-> "None", montoAprobado |-> "None"] :
    u \in Uids, s \in {"None", "active"}, st \in Stamps }

\* CustomError(message, error_type); the messages are written here without
\* their diacritics
CustomError(message, error_type) == [type |-> error_type, message |-> message]
Ok == [type |-> "ok", message |-> ""]

\* str(n) of a six-digit integer
Str(n) == << (n \div 100000) % 10, (n \div 10000) % 10, (n \div 1000) % 10,
             (n \div 100) % 10, (n \div 10) % 10, n % 10 >>

\* values random.randint(100000, 999999) may draw
RandInts == {100000, 999999}
\* codes a caller may submit to verify_otp
CodeInputs == {Str(n) : n \in RandInts}

\* the user collection, in store order; the core only reads it.  Strings
\* that are searched are sequences of characters; admin is "absent" when
\* the document has no such field.
UserDocs ==
  << [uid |-> "u1", admin |-> "absent", username |-> <<"A", "b">>,
      email |-> <<"b">>, documentNumber |-> <<"1">>, status |-> "pending"],
     [uid |-> "u3", admin |-> "False", username |-> <<"b">>,
      email |-> <<"a", "B">>, documentNumber |-> <<"2">>, status |-> "active"],
     [uid |-> "a1", admin |-> "True", username |-> <<"a", "b">>,
      email |-> <<"a", "b">>, documentNumber |-> <<"3">>, status |-> "active"],
     [uid |-> "u4", admin |-> "False", username |-> <<"b">>,
      email |-> <<"b">>, documentNumber |-> <<"1", "2">>, status |-> "None"] >>

\* the message collection, in store order; the core only reads it
MessageDocs == << [uid |-> "u4", messageType |-> "SMS", status |-> "sent"] >>

\* the uids find_one({"uid": uid}) finds a user for
Users == {UserDocs[i].uid : i \in 1..Len(UserDocs)}

\* what a caller passes to all_users
SearchTerms == { <<>>, <<"a", "b">>, <<"1">>, <<".">> }
ListArgs ==
  [search_term : SearchTerms, show_pending : BOOLEAN, show_active : BOOLEAN,
   page : 1..MaxPage, limit : 1..MaxLimit]
NoArgs == [search_term |-> <<>>, show_pending |-> FALSE, show_active |-> FALSE,
           page |-> 1, limit |-> 1]
NoQuery == [admin |-> {}, and |-> <<>>, status |-> "None"]
\* the dictionary all_users returns
NoData == [total |-> 0, users |-> <<>>]

Idle == [pc |-> "idle", op |-> "", uid |-> "", credit |-> NoCredit,
         id |-> 0, doc |-> NoCredit, code |-> <<>>,
         args |-> NoArgs, query |-> NoQuery, skip |-> 0, total |-> 0,
         users |-> <<>>, related |-> <<>>]
\* ret: None is 0, True is 1, a document is its _id; uid, code and args are
\* what the call was made with (code: or drew, for send_otp); data is the
\* dictionary all_users returned
NoResp == [p |-> 0, op |-> "", uid |-> "", code |-> <<>>, args |-> NoArgs,
           res |-> Ok, ret |-> 0, data |-> NoData]

\* ---------------------------------------------------- credit collection
\* A filter document of the credit collection: the uid to equal, the status
\* alternatives, and the string otpTimeStamp must be $gte (the empty string
\* when the filter has no such condition).
Matches(filter, c) ==
  /\ c.uid = filter.uid
  /\ c.status \in filter.status
  /\ StrGte(c.otpTimeStamp, filter.since)

\* collection.find(filter): the positions of the matching documents.
\* find_one returns one of them; no sort is given, so which one is the
\* store's choice.
Find(coll, filter) == {i \in 1..Len(coll) : Matches(filter, coll[i])}

\* variant: the "pending" alternative is left out of the $or
ActiveOrPendingQueryActiveOnly(uid) ==
  [uid |-> uid, status |-> {"active"}, since |-> <<>>]

\* {"uid": uid, "$or": [{"status": "active"}, {"status": "pending"}]}
ActiveOrPendingQuery(uid) ==
  [uid |-> uid, status |-> {"active", "pending"}, since |-> <<>>]

\* {"uid": uid, "$or": [active, pending, extended]}
BlockingQuery(uid) ==
  [uid |-> uid, status |-> {"active", "pending", "extended"}, since |-> <<>>]

\* {"uid": uid, "status": "rejected", "otpTimeStamp": {"$gte": since}}
RejectedSinceQuery(uid, since) ==
  [uid |-> uid, status |-> {"rejected"}, since |-> since]

\* variant: an extended credit is taken for an active one
ActiveQueryOrExtended(uid) ==
  [uid |-> uid, status |-> {"active", "extended"}, since |-> <<>>]

\* {"uid": uid, "status": "active"}
ActiveQuery(uid) == [uid |-> uid, status |-> {"active"}, since |-> <<>>]

\* variant: the window is a day short
SixMonthsAgoStrShort(t) == IsoFormat(t - Timedelta(CooldownDays - 1))

\* (datetime.now() - timedelta(days=180)).isoformat() in create_credit_request
SixMonthsAgoStr(t) == IsoFormat(t - Timedelta(CooldownDays))

\* the same expression in get_credit
StatusSixMonthsAgoStr(t) == IsoFormat(t - Timedelta(StatusWindowDays))

\* variant: fecha_cuota < yesterday
ExtensionClosedStrict(fechaCuota, t) ==
  Strptime(fechaCuota) < t - Timedelta(ExtensionGraceDays)

\* fecha_cuota <= yesterday
ExtensionClosed(fechaCuota, t) ==
  Strptime(fechaCuota) <= t - Timedelta(ExtensionGraceDays)

\* ------------------------------------------------------------- lifecycle
\* status changes made by the approval / payment collaborators
Lifecycle == { <<"pending", "active">>, <<"pending", "rejected">>,
               <<"active", "paid">>, <<"active", "extended">>,
               <<"extended", "active">>, <<"extended", "paid">> }

TypeOK ==
  /\ \A i \in 1..Len(credits) : credits[i].status \in Statuses
  /\ now \in StartTick..(StartTick + MaxTicks)
  /\ calls \in 0..MaxCalls

Init ==
  /\ credits = <<>>
  /\ otps = <<>>
  /\ now = StartTick
  /\ calls = 0
  /\ proc = [p \in Procs |-> Idle]
  /\ resp = NoResp
  /\ outbox = <<>>

\* a handler is invoked
Begin(p) ==
  /\ proc[p].pc = "idle"
  /\ calls < MaxCalls
  /\ calls' = calls + 1

\* the handler returns ret or raises res; its locals are dropped
Finish(p, res, ret) ==
  /\ proc' = [proc EXCEPT ![p] = Idle]
  /\ resp' = [p |-> p, op |-> proc[p].op, uid |-> proc[p].uid,
              code |-> proc[p].code, args |-> proc[p].args,
              res |-> res, ret |-> ret, data |-> NoData]

\* the handler goes on to its next await; nothing is returned yet
Goto(p, pc) ==
  /\ proc' = [proc EXCEPT ![p].pc = pc]
  /\ resp' = NoResp

\* --------------------------------------------------- AppService.get_credit
CallGetCredit(p) ==
  \E uid \in Uids :
    /\ Begin(p)
    /\ proc' = [proc EXCEPT ![p] =
         [Idle EXCEPT !.pc = "gc_find1", !.op = "get_credit", !.uid = uid]]
    /\ resp' = NoResp
    /\ UNCHANGED <<credits, otps, now, outbox>>

\* line 33-43: first find_one and the return that follows it
GcFind1(p) ==
  /\ proc[p].pc = "gc_find1"
  /\ LET active_credit == Find(credits, BlockingQuery(proc[p].uid))
     IN IF active_credit # {}
        THEN \E i \in active_credit : Finish(p, Ok, i)
        ELSE Goto(p, "gc_find2")
  /\ UNCHANGED <<credits, otps, now, calls, outbox>>

\* line 45-54: the clock is read, then the second find_one; None when the
\* function falls off its end
GcFind2(p) ==
  /\ proc[p].pc = "gc_find2"
  /\ LET rejected_credit ==
           Find(credits, RejectedSinceQuery(proc[p].uid, StatusSixMonthsAgoStr(now)))
     IN IF rejected_credit # {}
        THEN \E i \in rejected_credit : Finish(p, Ok, i)
        ELSE Finish(p, Ok, 0)
  /\ UNCHANGED <<credits, otps, now, calls, outbox>>

\* ------------------------------------------- AppService.create_credit_request
CallCreateCreditRequest(p) ==
  \E credit \in CreditInputs :
    /\ Begin(p)
    /\ Len(credits) + Cardinality({q \in Procs : proc[q].op = "create_credit_request"})
         < MaxCredits
    /\ proc' = [proc EXCEPT ![p] =
         [Idle EXCEPT !.pc = "rc_find1", !.op = "create_credit_request",
                      !.uid = credit.uid, !.credit = credit]]
    /\ resp' = NoResp
    /\ UNCHANGED <<credits, otps, now, outbox>>

\* line 72-84: first find_one and the raise that follows it
RcFind1(p) ==
  /\ proc[p].pc = "rc_find1"
  /\ LET is_active_or_pending ==
           Find(credits, ActiveOrPendingQuery(proc[p].uid))
     IN IF is_active_or_pending # {}
        THEN Finish(p, CustomError("Ya tienes un credito/peiticion activa.", "bussiness"), 0)
        ELSE Goto(p, "rc_find2")
  /\ UNCHANGED <<credits, otps, now, calls, outbox>>

\* line 86-95: the clock is read, then the second find_one
RcFind2(p) ==
  /\ proc[p].pc = "rc_find2"
  /\ LET rejected_recent ==
           Find(credits, RejectedSinceQuery(proc[p].uid, SixMonthsAgoStr(now)))
     IN IF rejected_recent # {}
        THEN Finish(p, CustomError("Debes esperar 6 meses para pedir tu credito.", "bussiness"), 0)
        ELSE Goto(p, "rc_insert")
  /\ UNCHANGED <<credits, otps, now, calls, outbox>>

\* CreditRepository.insert: insert_one(credit.model_dump())
CreditInsert(coll, credit) == Append(coll, credit)

\* line 97-98: status is overwritten, then the insert
RcInsert(p) ==
  /\ proc[p].pc = "rc_insert"
  /\ credits' = CreditInsert(credits, [proc[p].credit EXCEPT !.status = "pending"])
  /\ Finish(p, Ok, 0)
  /\ UNCHANGED <<otps, now, calls, outbox>>

\* the two operations as functions of the store and the clock: whether
\* get_credit returns None (line 33-54: neither find_one finds a document),
\* and whether create_credit_request inserts (line 72-95: neither raise)
GetCreditIsNone(coll, uid, t) ==
  /\ Find(coll, BlockingQuery(uid)) = {}
  /\ Find(coll, RejectedSinceQuery(uid, StatusSixMonthsAgoStr(t))) = {}
CreateCreditRequestPasses(coll, uid, t) ==
  /\ Find(coll, ActiveOrPendingQuery(uid)) = {}
  /\ Find(coll, RejectedSinceQuery(uid, SixMonthsAgoStr(t))) = {}

\* ------------------------------ AppService.request_extension_credit_payment
CallRequestExtension(p) ==
  \E uid \in Uids :
    /\ Begin(p)
    /\ proc' = [proc EXCEPT ![p] =
         [Idle EXCEPT !.pc = "ex_find", !.op = "request_extension", !.uid = uid]]
    /\ resp' = NoResp
    /\ UNCHANGED <<credits, otps, now, outbox>>

\* line 104-109, 121-122: find_one, and the raise of the else branch
ExFind(p) ==
  /\ proc[p].pc = "ex_find"
  /\ LET active_credit == Find(credits, ActiveQuery(proc[p].uid))
     IN IF active_credit # {}
        THEN /\ \E i \in active_credit :
                  proc' = [proc EXCEPT ![p].pc = "ex_update", ![p].id = i,
                                       ![p].doc = credits[i]]
             /\ resp' = NoResp
        ELSE Finish(p, CustomError("Este usuario no tiene un credito activo", "bussiness"), 0)
  /\ UNCHANGED <<credits, otps, now, calls, outbox>>

\* CreditRepository.update: update_one({"_id": id}, {"$set": every field of
\* the model but id})
CreditUpdate(coll, id, credit) == [coll EXCEPT ![id] = credit]

\* variant: the field is written before the window is looked at
ExUpdateWritesFirst(p) ==
  /\ proc[p].pc = "ex_update"
  /\ credits' = CreditUpdate(credits, proc[p].id,
                    [proc[p].doc EXCEPT !.extensionRequested = "True"])
  /\ IF ExtensionClosed(proc[p].doc.fechaCuota, now)
     THEN Finish(p, CustomError("Este credito no es valido para pedir extension de cupo", "bussiness"), 0)
     ELSE Finish(p, Ok, 0)
  /\ UNCHANGED <<otps, now, calls, outbox>>

\* line 110-120: the due date is parsed, the clock read, and either the
\* raise or the update of the document read before
ExUpdate(p) ==
  /\ proc[p].pc = "ex_update"
  /\ IF ExtensionClosed(proc[p].doc.fechaCuota, now)
     THEN /\ Finish(p, CustomError("Este credito no es valido para pedir extension de cupo", "bussiness"), 0)
          /\ UNCHANGED credits
     ELSE /\ credits' = CreditUpdate(credits, proc[p].id,
                            [proc[p].doc EXCEPT !.extensionRequested = "True"])
          /\ Finish(p, Ok, 0)
  /\ UNCHANGED <<otps, now, calls, outbox>>

\* ------------------------------------------------------- collaborators
\* approval, rejection, payment and extension are done outside the core
Transition(i) ==
  /\ i \in 1..Len(credits)
  /\ \E to \in Statuses :
       /\ <<credits[i].status, to>> \in Lifecycle
       /\ credits' = [credits EXCEPT ![i].status = to,
                        ![i].montoAprobado =
                           IF to = "active" /\ credits[i].status = "pending"
                           THEN "set" ELSE @]
  /\ resp' = NoResp
  /\ UNCHANGED <<otps, now, calls, proc, outbox>>

\* time passes
Tick ==
  /\ now < StartTick + MaxTicks
  /\ now' = now + 1
  /\ resp' = NoResp
  /\ UNCHANGED <<credits, otps, calls, proc, outbox>>

\* ------------------------------------------------------- otp collection
\* collection.find({"uid": uid}): the positions of the matching documents
FindOtp(coll, uid) == {i \in 1..Len(coll) : coll[i].uid = uid}

\* the sequence without its element at position i
Remove(coll, i) == SubSeq(coll, 1, i - 1) \o SubSeq(coll, i + 1, Len(coll))

\* collection.delete_one({"uid": uid}): the collections that may result;
\* one matching document is removed, none when nothing matches
DeleteOne(coll, uid) ==
  IF FindOtp(coll, uid) = {} THEN {coll}
  ELSE {Remove(coll, i) : i \in FindOtp(coll, uid)}

\* ---------------------------------------------------- UserService.send_otp
CallSendOtp(p) ==
  \E uid \in Uids :
    /\ Begin(p)
    /\ proc' = [proc EXCEPT ![p] =
         [Idle EXCEPT !.pc = "so_user", !.op = "send_otp", !.uid = uid]]
    /\ resp' = NoResp
    /\ UNCHANGED <<credits, otps, now, outbox>>

\* line 84-89: the user is looked up; the CustomError raised when there is
\* none is caught by line 106 and the function returns None; otherwise the
\* code is drawn
SoUser(p) ==
  /\ proc[p].pc = "so_user"
  /\ IF proc[p].uid \in Users
     THEN /\ \E n \in RandInts :
               proc' = [proc EXCEPT ![p].pc = "so_sms", ![p].code = Str(n)]
          /\ resp' = NoResp
     ELSE Finish(p, Ok, 0)
  /\ UNCHANGED <<credits, otps, now, calls, outbox>>

\* line 91, TwilioRepository._send_message: the gateway sends the message
\* or fails; the failure is caught there and None returned, and send_otp
\* drops the value returned
SoSms(p) ==
  /\ proc[p].pc = "so_sms"
  /\ \E outcome \in {"sent", "failed"} :
       outbox' = Append(outbox, [uid |-> proc[p].uid, code |-> proc[p].code,
                                 status |-> outcome])
  /\ Goto(p, "so_delete")
  /\ UNCHANGED <<credits, otps, now, calls>>

\* variant: the delete of line 22 is missing
SoDeleteSkipped(p) ==
  /\ proc[p].pc = "so_delete"
  /\ Goto(p, "so_insert")
  /\ UNCHANGED <<credits, otps, now, calls, outbox>>

\* OTPRepository.insert, line 22: delete_one({"uid": uid})
SoDelete(p) ==
  /\ proc[p].pc = "so_delete"
  /\ otps' \in DeleteOne(otps, proc[p].uid)
  /\ Goto(p, "so_insert")
  /\ UNCHANGED <<credits, now, calls, outbox>>

\* OTPRepository.insert, line 23: insert_one(otp); send_otp returns True
SoInsert(p) ==
  /\ proc[p].pc = "so_insert"
  /\ otps' = Append(otps, [uid |-> proc[p].uid, code |-> proc[p].code,
                            sentTimeStamp |-> now])
  /\ Finish(p, Ok, 1)
  /\ UNCHANGED <<credits, now, calls, outbox>>

\* -------------------------------------------------- UserService.verify_otp
CallVerifyOtp(p) ==
  \E uid \in Uids, code \in CodeInputs :
    /\ Begin(p)
    /\ proc' = [proc EXCEPT ![p] =
         [Idle EXCEPT !.pc = "vo_find", !.op = "verify_otp", !.uid = uid,
                      !.code = code]]
    /\ resp' = NoResp
    /\ UNCHANGED <<credits, otps, now, outbox>>

\* line 115 and line 119: the two errors verify_otp raises
NoCodeError == CustomError("Pide un nuevo codigo, intenta de nuevo.", "invalid")
WrongCodeError == CustomError("El codigo es incorrecto, intenta de nuevo.", "invalid")

\* variant: a code sent before the current instant has expired
VoFindExpiring(p) ==
  /\ proc[p].pc = "vo_find"
  /\ LET current_code == {i \in FindOtp(otps, proc[p].uid) :
                            otps[i].sentTimeStamp = now}
     IN IF current_code = {}
        THEN Finish(p, NoCodeError, 0)
        ELSE \E i \in current_code :
               IF otps[i].code # proc[p].code
               THEN Finish(p, WrongCodeError, 0)
               ELSE Goto(p, "vo_delete")
  /\ UNCHANGED <<credits, otps, now, calls, outbox>>

\* variant: the comparison of line 118 is missing
VoFindAnyCode(p) ==
  /\ proc[p].pc = "vo_find"
  /\ IF FindOtp(otps, proc[p].uid) = {}
     THEN Finish(p, NoCodeError, 0)
     ELSE Goto(p, "vo_delete")
  /\ UNCHANGED <<credits, otps, now, calls, outbox>>

\* line 112-119: find_one and the two raises
VoFind(p) ==
  /\ proc[p].pc = "vo_find"
  /\ LET current_code == FindOtp(otps, proc[p].uid)
     IN IF current_code = {}
        THEN Finish(p, NoCodeError, 0)
        ELSE \E i \in current_code :
               IF otps[i].code # proc[p].code
               THEN Finish(p, WrongCodeError, 0)
               ELSE Goto(p, "vo_delete")
  /\ UNCHANGED <<credits, otps, now, calls, outbox>>

\* variant: the delete of line 121 is missing
VoDeleteSkipped(p) ==
  /\ proc[p].pc = "vo_delete"
  /\ Finish(p, Ok, 0)
  /\ UNCHANGED <<credits, otps, now, calls, outbox>>

\* line 121, OTPRepository.delete: delete_one({"uid": uid})
VoDelete(p) ==
  /\ proc[p].pc = "vo_delete"
  /\ otps' \in DeleteOne(otps, proc[p].uid)
  /\ Finish(p, Ok, 0)
  /\ UNCHANGED <<credits, now, calls, outbox>>

\* --------------------------------------------------- UserService.all_users
\* case folding of "$options": "i"
Lower(c) == IF c = "A" THEN "a" ELSE IF c = "B" THEN "b" ELSE c

\* {"$regex": term, "$options": "i"} on the string s: the term is a regular
\* expression searched anywhere in s; its "." matches any character, the
\* other characters used here match themselves whatever their case
RegexMatchAt(term, s, i) ==
  \A k \in 1..Len(term) :
    term[k] = "." \/ Lower(term[k]) = Lower(s[i + k - 1])
RegexSearch(term, s) ==
  \E i \in 1..(Len(s) - Len(term) + 1) : RegexMatchAt(term, s, i)

\* _build_user_query.  The dictionary has the keys "$or" (the admin
\* alternatives), "$and" when a search term is given, and "status".  Line
\* 166-167 puts the dictionary itself as first element of its own "$and"
\* list: self marks that element.
BuildUserQuery(search_term, show_pending, show_active) ==
  [admin |-> {"False", "absent"},
   and |-> IF search_term # <<>>
           THEN << [self |-> TRUE, regex |-> <<>>],
                   [self |-> FALSE, regex |-> search_term] >>
           ELSE <<>>,
   status |-> IF show_pending THEN "pending"
              ELSE IF show_active THEN "active" ELSE "None"]

\* whether the driver can encode the dictionary as a BSON document: one that
\* contains itself has no finite encoding, the encoder recurses until Python
\* raises RecursionError
BsonEncodable(query) == \A k \in 1..Len(query.and) : ~query.and[k].self
RecursionError == [type |-> "RecursionError",
                   message |-> "maximum recursion depth exceeded"]

\* whether the user document u matches an encodable query
UserMatches(query, u) ==
  /\ u.admin \in query.admin
  /\ \A k \in 1..Len(query.and) :
       \/ RegexSearch(query.and[k].regex, u.username)
       \/ RegexSearch(query.and[k].regex, u.email)
       \/ RegexSearch(query.and[k].regex, u.documentNumber)
  /\ (query.status # "None" => u.status = query.status)

\* collection.count_documents(query)
CountDocuments(coll, query) ==
  Cardinality({i \in 1..Len(coll) : UserMatches(query, coll[i])})

\* UserRepository.filter_users: find(query).skip(skip).limit(limit), no sort
FilterUsers(coll, query, skip, limit) ==
  LET found == SelectSeq(coll, LAMBDA u : UserMatches(query, u))
      last == IF skip + limit < Len(found) THEN skip + limit ELSE Len(found)
  IN SubSeq(found, skip + 1, last)

\* variant: pages are counted from zero
SkipFromZero(page, limit) == page * limit

\* line 138: skip = (page - 1) * limit
Skip(page, limit) == (page - 1) * limit

\* CreditRepository.query({"uid": uid}): find(query).skip(0).limit(100)
CreditQuery(coll, uid) ==
  LET found == SelectSeq(coll, LAMBDA c : c.uid = uid)
  IN SubSeq(found, 1, IF QueryLimit < Len(found) THEN QueryLimit ELSE Len(found))

\* MessageRepository.filter_messages({"uid": uid}):
\* find(query).skip(0).limit(100), each document made a MessageDB
FilterMessages(coll, uid) ==
  LET found == SelectSeq(coll, LAMBDA m : m.uid = uid)
  IN SubSeq(found, 1, IF MessageLimit < Len(found) THEN MessageLimit ELSE Len(found))

\* line 203, MessageDB(**message): message is a MessageDB already, which is
\* no mapping, so the call raises TypeError
TypeError == [type |-> "TypeError",
              message |-> "argument after ** must be a mapping, not MessageDB"]

\* all_users returns data or raises res
FinishList(p, res, data) ==
  /\ proc' = [proc EXCEPT ![p] = Idle]
  /\ resp' = [p |-> p, op |-> proc[p].op, uid |-> "", code |-> <<>>,
              args |-> proc[p].args, res |-> res, ret |-> 0, data |-> data]

\* line 135-138: the query is built and skip computed
CallAllUsers(p) ==
  \E args \in ListArgs :
    /\ Begin(p)
    /\ proc' = [proc EXCEPT ![p] =
         [Idle EXCEPT !.pc = "au_count", !.op = "all_users", !.args = args,
            !.query = BuildUserQuery(args.search_term, args.show_pending,
                                     args.show_active),
            !.skip = Skip(args.page, args.limit)]]
    /\ resp' = NoResp
    /\ UNCHANGED <<credits, otps, now, outbox>>

\* line 141: count_documents(query); the driver raises when it cannot
\* encode the query
AuCount(p) ==
  /\ proc[p].pc = "au_count"
  /\ IF BsonEncodable(proc[p].query)
     THEN /\ proc' = [proc EXCEPT ![p].pc = "au_find",
                        ![p].total = CountDocuments(UserDocs, proc[p].query)]
          /\ resp' = NoResp
     ELSE FinishList(p, RecursionError, NoData)
  /\ UNCHANGED <<credits, otps, now, calls, outbox>>

\* line 144: filter_users(query, skip, limit); with an empty page the loop
\* of _add_related_data_to_users has nothing to do and all_users returns
AuFind(p) ==
  /\ proc[p].pc = "au_find"
  /\ LET users == FilterUsers(UserDocs, proc[p].query, proc[p].skip,
                              proc[p].args.limit)
     IN IF users = <<>>
        THEN FinishList(p, Ok, [total |-> proc[p].total, users |-> <<>>])
        ELSE /\ proc' = [proc EXCEPT ![p].pc = "au_related", ![p].users = users]
             /\ resp' = NoResp
  /\ UNCHANGED <<credits, otps, now, calls, outbox>>

\* _add_related_data_to_users, one turn of its loop: the credits and the
\* messages of the next user are queried; the list comprehension of line
\* 203 raises on its first message, with no message the user is attached
\* with an empty message list; after the last user all_users returns
AuRelated(p) ==
  /\ proc[p].pc = "au_related"
  /\ LET user == proc[p].users[Len(proc[p].related) + 1]
         credits_data == CreditQuery(credits, user.uid)
         messages_data == FilterMessages(MessageDocs, user.uid)
         enriched_data == [user |-> user, credits |-> credits_data,
                           messages |-> <<>>]
         users_with_related_data == Append(proc[p].related, enriched_data)
     IN IF messages_data # <<>>
        THEN FinishList(p, TypeError, NoData)
        ELSE IF Len(users_with_related_data) = Len(proc[p].users)
        THEN FinishList(p, Ok, [total |-> proc[p].total,
                                users |-> users_with_related_data])
        ELSE /\ proc' = [proc EXCEPT ![p].related = users_with_related_data]
             /\ resp' = NoResp
  /\ UNCHANGED <<credits, otps, now, calls, outbox>>

\* ------------------------------------------------------------ the routes
\* ApiResponse(data, message, success) as the route returns it with HTTP 200
ApiResponse(message, success) ==
  [status |-> 200, message |-> message, success |-> success]

\* routes/user.py verify_otp_code: what the route answers when verify_otp
\* returned (res = Ok) or raised the CustomError res
VerifyOtpCode(res) ==
  IF res = Ok
  THEN ApiResponse("Codigo OTP verificado exitosamente", TRUE)
  ELSE ApiResponse(res.message, FALSE)

\* HTTPException(status_code=500, detail=str(e))
HTTPException(detail) == [status |-> 500, message |-> detail, success |-> FALSE]

\* routes/user.py send_otp_code: the value send_otp returns is dropped;
\* anything it raises becomes HTTP 500
SendOtpCode(res) ==
  IF res = Ok
  THEN ApiResponse("Codigo OTP enviado exitosamente", TRUE)
  ELSE HTTPException(res.message)

\* variant: the error type is compared with "business"
RequestCreditBusiness(res) ==
  IF res = Ok
  THEN ApiResponse("Tu credito fue solicitado exitosamente.", TRUE)
  ELSE IF res.type = "business"
  THEN ApiResponse(res.message, FALSE)
  ELSE HTTPException("None")

\* routes/main.py request_credit: a CustomError of type "bussiness" becomes
\* a success = False answer; for any other CustomError the function returns
\* None, which is no ApiResponse, and the framework answers HTTP 500
RequestCredit(res) ==
  IF res = Ok
  THEN ApiResponse("Tu credito fue solicitado exitosamente.", TRUE)
  ELSE IF res.type = "bussiness"
  THEN ApiResponse(res.message, FALSE)
  ELSE HTTPException("None")

\* routes/user.py get_all_users_information: the result is formatted and
\* returned; anything all_users raises becomes HTTP 500
GetAllUsersInformation(res) ==
  IF res = Ok
  THEN ApiResponse("Informacion de todos los usuarios obtenida exitosamente", TRUE)
  ELSE HTTPException(res.message)

\* ------------------------------------------------------- specifications
AllIdle == \A q \in Procs : proc[q].pc = "idle"
NoCreateRunning == \A q \in Procs : proc[q].op # "create_credit_request"

\* the credit engine: its three operations, overlapping freely
NextCredit ==
  \/ \E p \in Procs : CallGetCredit(p)
  \/ \E p \in Procs : GcFind1(p)
  \/ \E p \in Procs : GcFind2(p)
  \/ \E p \in Procs : CallCreateCreditRequest(p)
  \/ \E p \in Procs : RcFind1(p)
  \/ \E p \in Procs : RcFind2(p)
  \/ \E p \in Procs : RcInsert(p)
  \/ \E p \in Procs : CallRequestExtension(p)
  \/ \E p \in Procs : ExFind(p)
  \/ \E p \in Procs : ExUpdate(p)
  \/ \E i \in 1..MaxCredits : Transition(i)
  \/ Tick

SpecCredit == Init /\ [][NextCredit]_vars

\* create_credit_request alone, its calls overlapping freely
NextCreate ==
  \/ \E p \in Procs : CallCreateCreditRequest(p)
  \/ \E p \in Procs : RcFind1(p)
  \/ \E p \in Procs : RcFind2(p)
  \/ \E p \in Procs : RcInsert(p)
  \/ \E i \in 1..MaxCredits : Transition(i)
  \/ Tick

SpecCreate == Init /\ [][NextCreate]_vars

\* request_extension_credit_payment, its calls overlapping each other, the
\* collaborators and the clock; the credit requests they work on are made
\* one at a time, with no other call running
SeqCallCreateCreditRequest(p) == AllIdle /\ CallCreateCreditRequest(p)
SeqCallRequestExtension(p) == NoCreateRunning /\ CallRequestExtension(p)

NextExt ==
  \/ \E p \in Procs : SeqCallCreateCreditRequest(p)
  \/ \E p \in Procs : RcFind1(p)
  \/ \E p \in Procs : RcFind2(p)
  \/ \E p \in Procs : RcInsert(p)
  \/ \E p \in Procs : SeqCallRequestExtension(p)
  \/ \E p \in Procs : ExFind(p)
  \/ \E p \in Procs : ExUpdate(p)
  \/ \E i \in 1..MaxCredits : Transition(i)
  \/ Tick

SpecExt == Init /\ [][NextExt]_vars


\* the otp engine, its calls overlapping freely
NextOtp ==
  \/ \E p \in Procs : CallSendOtp(p)
  \/ \E p \in Procs : SoUser(p)
  \/ \E p \in Procs : SoSms(p)
  \/ \E p \in Procs : SoDelete(p)
  \/ \E p \in Procs : SoInsert(p)
  \/ \E p \in Procs : CallVerifyOtp(p)
  \/ \E p \in Procs : VoFind(p)
  \/ \E p \in Procs : VoDelete(p)
  \/ Tick

SpecOtp == Init /\ [][NextOtp]_vars

\* the otp engine, its calls overlapping freely within one instant of the
\* clock (a burst of requests)
NextOtpBurst ==
  \/ \E p \in Procs : CallSendOtp(p)
  \/ \E p \in Procs : SoUser(p)
  \/ \E p \in Procs : SoSms(p)
  \/ \E p \in Procs : SoDelete(p)
  \/ \E p \in Procs : SoInsert(p)
  \/ \E p \in Procs : CallVerifyOtp(p)
  \/ \E p \in Procs : VoFind(p)
  \/ \E p \in Procs : VoDelete(p)

SpecOtpBurst == Init /\ [][NextOtpBurst]_vars

\* the otp engine with calls that do not overlap: a handler is invoked when
\* no other is running
SeqCallSendOtp(p) == AllIdle /\ CallSendOtp(p)
SeqCallVerifyOtp(p) == AllIdle /\ CallVerifyOtp(p)

NextOtpSeq ==
  \/ \E p \in Procs : SeqCallSendOtp(p)
  \/ \E p \in Procs : SoUser(p)
  \/ \E p \in Procs : SoSms(p)
  \/ \E p \in Procs : SoDelete(p)
  \/ \E p \in Procs : SoInsert(p)
  \/ \E p \in Procs : SeqCallVerifyOtp(p)
  \/ \E p \in Procs : VoFind(p)
  \/ \E p \in Procs : VoDelete(p)
  \/ Tick

SpecOtpSeq == Init /\ [][NextOtpSeq]_vars

\* the four operations of the core that write, the collaborators and the
\* clock.  The calls are made one at a time.  The credit engine and the otp
\* engine share no collection, so a behaviour works one of the two: a
\* credit call is made while the otp collection and the gateway are
\* untouched, an otp call while the credit collection is.
CoreCallCreateCreditRequest(p) ==
  AllIdle /\ otps = <<>> /\ outbox = <<>> /\ CallCreateCreditRequest(p)
CoreCallRequestExtension(p) ==
  AllIdle /\ otps = <<>> /\ outbox = <<>> /\ CallRequestExtension(p)
CoreCallSendOtp(p) == AllIdle /\ credits = <<>> /\ CallSendOtp(p)
CoreCallVerifyOtp(p) == AllIdle /\ credits = <<>> /\ CallVerifyOtp(p)

NextCore ==
  \/ \E p \in Procs : CoreCallCreateCreditRequest(p)
  \/ \E p \in Procs : RcFind1(p)
  \/ \E p \in Procs : RcFind2(p)
  \/ \E p \in Procs : RcInsert(p)
  \/ \E p \in Procs : CoreCallRequestExtension(p)
  \/ \E p \in Procs : ExFind(p)
  \/ \E p \in Procs : ExUpdate(p)
  \/ \E p \in Procs : CoreCallSendOtp(p)
  \/ \E p \in Procs : SoUser(p)
  \/ \E p \in Procs : SoSms(p)
  \/ \E p \in Procs : SoDelete(p)
  \/ \E p \in Procs : SoInsert(p)
  \/ \E p \in Procs : CoreCallVerifyOtp(p)
  \/ \E p \in Procs : VoFind(p)
  \/ \E p \in Procs : VoDelete(p)
  \/ \E i \in 1..MaxCredits : Transition(i)
  \/ Tick

SpecCore == Init /\ [][NextCore]_vars

\* the user listing; it writes nothing, its calls are made one at a time
SeqCallAllUsers(p) == AllIdle /\ CallAllUsers(p)

NextList ==
  \/ \E p \in Procs : SeqCallAllUsers(p)
  \/ \E p \in Procs : AuCount(p)
  \/ \E p \in Procs : AuFind(p)
  \/ \E p \in Procs : AuRelated(p)

SpecList == Init /\ [][NextList]_vars

Next == NextCredit \/ NextOtp \/ NextList

Spec == Init /\ [][Next]_vars

\* ===================================================================
\* Properties
\* ===================================================================
\* the statuses the specification calls blocking
BlockingStatuses == {"pending", "active", "extended"}

\* the credit documents of uid whose status is in S
DocsOf(uid, S) ==
  {i \in 1..Len(credits) : credits[i].uid = uid /\ credits[i].status \in S}

\* the instant a stored timestamp denotes, in ticks
IsoTicks(s) == (s[1] * 100 + s[2] * 10 + s[3]) * TicksPerDay + s[4]

\* the rejected documents of uid issued no more than 180 days before t
RecentRejected(uid, t) ==
  {i \in DocsOf(uid, {"rejected"}) :
     IsoTicks(credits[i].otpTimeStamp) >= t - 180 * TicksPerDay}

\* the day number a due date names, and the day number of an instant
DueDay(s) == s[1] * 100 + s[2] * 10 + s[3]
Today(t) == t \div TicksPerDay

\* handler p is at position pc and takes its next step
Step(p, pc) == proc[p].pc = pc /\ proc'[p] # proc[p]

\* the otp documents of uid, in store order
OtpsOf(coll, uid) == SelectSeq(coll, LAMBDA d : d.uid = uid)

\* C1: in every reachable state, every uid has at most one credit request
\* whose status is pending, active or extended.
C1_SingleActiveRequest ==
  \A u \in Uids : Cardinality(DocsOf(u, BlockingStatuses)) <= 1

\* C2: of two overlapping create_credit_request calls for one uid at most
\* one inserts: no uid ever has two pending requests.
C2_AtMostOneInsert ==
  \A u \in Uids : Cardinality(DocsOf(u, {"pending"})) <= 1

\* C3: create_credit_request raises a 'bussiness' error and stores nothing
\* when a pending or active request of the uid exists; with no blocking
\* request it passes the first check, with no rejected request inside the
\* cooldown it passes the second, and it then appends exactly one document,
\* whose status is pending whatever status was posted.
C3_RequestCreditGate ==
  [][\A p \in Procs :
       /\ (Step(p, "rc_find1") /\ DocsOf(proc[p].uid, {"pending", "active"}) # {})
            => /\ proc'[p].pc = "idle"
               /\ resp'.p = p
               /\ resp'.res.type = "bussiness"
               /\ credits' = credits
       /\ (Step(p, "rc_find1") /\ DocsOf(proc[p].uid, BlockingStatuses) = {})
            => proc'[p].pc = "rc_find2"
       /\ (Step(p, "rc_find2") /\ RecentRejected(proc[p].uid, now) = {})
            => proc'[p].pc = "rc_insert"
       /\ Step(p, "rc_insert")
            => /\ resp'.p = p
               /\ resp'.res = Ok
               /\ Len(credits') = Len(credits) + 1
               /\ \A i \in 1..Len(credits) : credits'[i] = credits[i]
               /\ credits'[Len(credits')].uid = proc[p].uid
               /\ credits'[Len(credits')].status = "pending"
    ]_vars

\* a request was stored, as pending, and is the only one of its uid
C3_Witness ==
  /\ resp.op = "create_credit_request"
  /\ resp.res = Ok
  /\ DocsOf(resp.uid, {"pending"}) # {}
  /\ DocsOf(resp.uid, {"active", "extended", "rejected", "paid"}) = {}

\* C4: create_credit_request raises the 'bussiness' error of the first check
\* whenever an extended request of the uid exists.
C4_ExtendedBlocks ==
  [][\A p \in Procs :
       (Step(p, "rc_find1") /\ DocsOf(proc[p].uid, {"extended"}) # {})
         => /\ proc'[p].pc = "idle"
            /\ resp'.res = CustomError("Ya tienes un credito/peiticion activa.", "bussiness")
    ]_vars

\* C5: past the first check, create_credit_request raises the cooldown error
\* exactly when some rejected request of the uid was issued at or after
\* now - 180 days, and goes on to insert otherwise.
C5_CooldownBoundary ==
  [][\A p \in Procs :
       Step(p, "rc_find2") =>
         IF RecentRejected(proc[p].uid, now) # {}
         THEN /\ proc'[p].pc = "idle"
              /\ resp'.p = p
              /\ resp'.res = CustomError("Debes esperar 6 meses para pedir tu credito.", "bussiness")
              /\ credits' = credits
         ELSE proc'[p].pc = "rc_insert"
    ]_vars

\* the cooldown error was raised for a request rejected exactly 180 days ago
C5_Witness ==
  /\ resp.op = "create_credit_request"
  /\ resp.res.message = "Debes esperar 6 meses para pedir tu credito."
  /\ \E i \in DocsOf(resp.uid, {"rejected"}) :
       IsoTicks(credits[i].otpTimeStamp) = now - 180 * TicksPerDay

\* C6: get_credit returns a blocking request of the uid when there is one;
\* else the most recent rejected request issued within the last 180 days;
\* else None.
C6_StatusPriority ==
  [][\A p \in Procs :
       /\ (Step(p, "gc_find1") /\ DocsOf(proc[p].uid, BlockingStatuses) # {})
            => /\ proc'[p].pc = "idle"
               /\ resp'.ret \in DocsOf(proc[p].uid, BlockingStatuses)
       /\ (Step(p, "gc_find1") /\ DocsOf(proc[p].uid, BlockingStatuses) = {})
            => proc'[p].pc = "gc_find2"
       /\ Step(p, "gc_find2")
            => /\ proc'[p].pc = "idle"
               /\ IF RecentRejected(proc[p].uid, now) = {}
                  THEN resp'.ret = 0
                  ELSE /\ resp'.ret \in RecentRejected(proc[p].uid, now)
                       /\ \A j \in RecentRejected(proc[p].uid, now) :
                            IsoTicks(credits[j].otpTimeStamp)
                              <= IsoTicks(credits[resp'.ret].otpTimeStamp)
    ]_vars

\* C7: request_extension raises a 'bussiness' error and leaves every credit
\* request as it is whenever the uid has no request whose status is active.
C7_ExtensionNeedsActive ==
  [][\A p \in Procs :
       (Step(p, "ex_find") /\ DocsOf(proc[p].uid, {"active"}) = {})
         => /\ proc'[p].pc = "idle"
            /\ resp'.p = p
            /\ resp'.res.type = "bussiness"
            /\ credits' = credits
    ]_vars

\* the error was raised for a uid whose only request is extended
C7_Witness ==
  /\ resp.op = "request_extension"
  /\ resp.res = CustomError("Este usuario no tiene un credito activo", "bussiness")
  /\ DocsOf(resp.uid, {"extended"}) # {}
  /\ DocsOf(resp.uid, {"active"}) = {}
  /\ \A i \in 1..Len(credits) : credits[i].extensionRequested = "None"

\* C8: for the active request it read, request_extension raises the
\* 'bussiness' error of the closed window exactly when the due date is
\* yesterday's date or earlier, at every time of day; otherwise it returns
\* and the request has extensionRequested set.
C8_ExtensionWindow ==
  [][\A p \in Procs :
       Step(p, "ex_update") =>
         /\ proc'[p].pc = "idle"
         /\ resp'.p = p
         /\ IF DueDay(proc[p].doc.fechaCuota) < Today(now)
            THEN /\ resp'.res = CustomError("Este credito no es valido para pedir extension de cupo", "bussiness")
                 /\ credits' = credits
            ELSE /\ resp'.res = Ok
                 /\ credits'[proc[p].id].extensionRequested = "True"
    ]_vars

\* an extension was granted, not at midnight, on the due date itself
C8_Witness ==
  /\ resp.op = "request_extension"
  /\ resp.res = Ok
  /\ now % TicksPerDay # 0
  /\ \E i \in DocsOf(resp.uid, {"active"}) :
       /\ credits[i].extensionRequested = "True"
       /\ DueDay(credits[i].fechaCuota) = Today(now)

\* C9: with calls that do not overlap, when send_otp has delivered its code
\* and inserted it, exactly one otp document exists for the uid and it
\* holds that code; a verify_otp with a code no document of the uid holds
\* raises an 'invalid' error and deletes nothing.
C9_SequentialSupersession ==
  [][\A p \in Procs :
       /\ (Step(p, "so_insert") /\ outbox[Len(outbox)].status = "sent")
            => /\ Len(OtpsOf(otps', proc[p].uid)) = 1
               /\ OtpsOf(otps', proc[p].uid)[1].code = proc[p].code
               /\ resp'.ret = 1
       /\ (Step(p, "vo_find")
             /\ \A i \in 1..Len(otps) :
                  otps[i].uid = proc[p].uid => otps[i].code # proc[p].code)
            => /\ proc'[p].pc = "idle"
               /\ resp'.res.type = "invalid"
               /\ otps' = otps
    ]_vars

\* two codes were delivered to one uid, one after the other, and the only
\* otp document of the uid holds the second
C9_Witness ==
  /\ resp.op = "send_otp"
  /\ resp.ret = 1
  /\ Len(outbox) = 2
  /\ outbox[1].uid = resp.uid /\ outbox[2].uid = resp.uid
  /\ outbox[1].status = "sent" /\ outbox[2].status = "sent"
  /\ outbox[1].code # outbox[2].code
  /\ Len(OtpsOf(otps, resp.uid)) = 1
  /\ OtpsOf(otps, resp.uid)[1].code = outbox[2].code

\* C10: in every reachable state, whatever the interleaving of send_otp and
\* verify_otp calls, the otp collection holds at most one document per uid.
C10_AtMostOneOtp ==
  \A u \in Uids : Len(OtpsOf(otps, u)) <= 1

\* C11: with calls that do not overlap, verify_otp with the stored code goes
\* on to its delete, returns without error and leaves no otp document of
\* the uid; a verify_otp for a uid without otp document raises 'invalid';
\* and a uid gets an otp document again only by the insert of a send_otp.
\* So the same code is refused from the successful verify until a new issue.
C11_SingleUse ==
  [][\A p \in Procs :
       /\ (Step(p, "vo_find")
             /\ \E i \in FindOtp(otps, proc[p].uid) : otps[i].code = proc[p].code)
            => proc'[p].pc = "vo_delete"
       /\ Step(p, "vo_delete")
            => /\ resp'.p = p
               /\ resp'.res = Ok
               /\ FindOtp(otps', proc[p].uid) = {}
       /\ (Step(p, "vo_find") /\ FindOtp(otps, proc[p].uid) = {})
            => /\ proc'[p].pc = "idle"
               /\ resp'.res.type = "invalid"
               /\ otps' = otps
       /\ \A u \in Uids :
            (FindOtp(otps, u) = {} /\ FindOtp(otps', u) # {})
              => \E q \in Procs : Step(q, "so_insert") /\ proc[q].uid = u
    ]_vars

\* one code was issued to the uid, a verify_otp consumed it, and a second
\* verify_otp with that same code was refused
C11_Witness ==
  /\ calls = 3
  /\ resp.op = "verify_otp"
  /\ resp.res.type = "invalid"
  /\ Len(outbox) = 1
  /\ outbox[1].uid = resp.uid
  /\ outbox[1].code = resp.code
  /\ otps = <<>>

\* C12: verify_otp raises an 'invalid' error, answered with success = false,
\* when the uid has no otp document and when no otp document of the uid
\* holds the supplied code; it passes its comparison only when some otp
\* document of the uid holds exactly the supplied code, and the route
\* answers success = true only for a call that passed it.
C12_VerifyOutcome ==
  [][\A p \in Procs :
       /\ (Step(p, "vo_find")
             /\ \A i \in FindOtp(otps, proc[p].uid) : otps[i].code # proc[p].code)
            => /\ proc'[p].pc = "idle"
               /\ resp'.p = p
               /\ resp'.res.type = "invalid"
               /\ ~VerifyOtpCode(resp'.res).success
               /\ otps' = otps
       /\ (Step(p, "vo_find") /\ proc'[p].pc = "vo_delete")
            => \E i \in FindOtp(otps, proc[p].uid) : otps[i].code = proc[p].code
       /\ (resp'.p = p /\ resp'.op = "verify_otp" /\ VerifyOtpCode(resp'.res).success)
            => Step(p, "vo_delete")
    ]_vars

\* a verify_otp was refused for a uid whose otp document holds another code
C12_Witness ==
  /\ resp.op = "verify_otp"
  /\ resp.res.type = "invalid"
  /\ ~VerifyOtpCode(resp.res).success
  /\ FindOtp(otps, resp.uid) # {}
  /\ \A i \in FindOtp(otps, resp.uid) : otps[i].code # resp.code

\* C13: an otp document is stored only after its code was delivered: every
\* otp document holds a code the gateway sent to its uid.  A send_otp whose
\* SMS failed stores nothing.
C13_PersistedOnlyIfDelivered ==
  \A i \in 1..Len(otps) :
    \E j \in 1..Len(outbox) :
      /\ outbox[j].uid = otps[i].uid
      /\ outbox[j].code = otps[i].code
      /\ outbox[j].status = "sent"

\* C14: the /sendOtp route answers success only for a send_otp whose user
\* exists, whose SMS was delivered and whose otp document was stored; with no
\* user or a failed delivery the caller is told of the failure.
C14_IssueFailureSurfaced ==
  (resp.op = "send_otp" /\ SendOtpCode(resp.res).success)
    => /\ resp.uid \in Users
       /\ resp.ret = 1
       /\ \E j \in 1..Len(outbox) :
            outbox[j] = [uid |-> resp.uid, code |-> resp.code, status |-> "sent"]
       /\ \E i \in FindOtp(otps, resp.uid) : otps[i].code = resp.code

\* C15: whatever the otp collection holds, the answer of the /verifyOtp
\* route to a refused verify_otp is the answer it gives when the uid has no
\* otp document: same success flag, same message.
C15_NoEnumerationOracle ==
  [][\A p \in Procs :
       (Step(p, "vo_find") /\ proc'[p].pc = "idle")
         => VerifyOtpCode(resp'.res) = VerifyOtpCode(NoCodeError)
    ]_vars

\* whether the string s contains term, letter case ignored
ContainsCI(term, s) ==
  \E i \in 1..(Len(s) - Len(term) + 1) :
    \A k \in 1..Len(term) : Lower(term[k]) = Lower(s[i + k - 1])

\* whether the listing called with args is to match the user document u
Listed(args, u) ==
  /\ u.admin # "True"
  /\ \/ args.search_term = <<>>
     \/ ContainsCI(args.search_term, u.username)
     \/ ContainsCI(args.search_term, u.email)
     \/ ContainsCI(args.search_term, u.documentNumber)
  /\ args.show_pending => u.status = "pending"
  /\ (~args.show_pending /\ args.show_active) => u.status = "active"

\* the user documents the listing called with args is to match, in store
\* order
ListedSeq(args) == SelectSeq(UserDocs, LAMBDA u : Listed(args, u))

\* C16: every all_users call, with or without search term, is answered with
\* success, counts in total exactly the users that are not admin and, when a
\* search term is given, contain it in username, email or documentNumber
\* whatever the letter case, and returns only such users.
C16_ListFilter ==
  resp.op = "all_users"
    => /\ GetAllUsersInformation(resp.res).success
       /\ resp.data.total = Len(ListedSeq(resp.args))
       /\ \A k \in 1..Len(resp.data.users) :
            Listed(resp.args, resp.data.users[k].user)

C18_ViolationIsStructured ==
  resp.op = "create_credit_request"
    => /\ RequestCredit(resp.res).status = 200
       /\ RequestCredit(resp.res).success <=> resp.res = Ok
       /\ resp.res # Ok
            => /\ resp.res.type = "bussiness"
               /\ RequestCredit(resp.res).message = resp.res.message

\* the route answered success = false with the message of the first check,
\* and nothing was stored for the call
C18_Witness ==
  /\ resp.op = "create_credit_request"
  /\ RequestCredit(resp.res) =
       ApiResponse("Ya tienes un credito/peiticion activa.", FALSE)
  /\ Cardinality(DocsOf(resp.uid, Statuses)) = 1

\* C19: the write of request_extension changes no field but
\* extensionRequested: the status and the approved amount a collaborator
\* stored between its read and its write are still there after the write.
C19_NoLostUpdate ==
  [][\A p \in Procs :
       Step(p, "ex_update")
         => \A i \in 1..Len(credits) :
              credits'[i] = [credits[i] EXCEPT
                               !.extensionRequested = credits'[i].extensionRequested]
    ]_vars

\* C20: every change of a stored request's status is a step of the
\* lifecycle, whoever makes it, and a request is created as pending.
C20_LifecycleConformance ==
  [][ /\ \A i \in 1..Len(credits) :
           credits'[i].status # credits[i].status
             => <<credits[i].status, credits'[i].status>> \in Lifecycle
      /\ \A i \in (Len(credits) + 1)..Len(credits') :
           credits'[i].status = "pending"
    ]_vars

\* the messages the gateway was handed for uid
SentTo(uid) == SelectSeq(outbox, LAMBDA m : m.uid = uid)

\* the otp documents of uid that hold another code than code
OtherCodes(coll, uid, code) ==
  SelectSeq(coll, LAMBDA d : d.uid = uid /\ d.code # code)

\* C21: when one code only was ever issued to a uid, every verify_otp that
\* returns success for it has removed an otp document holding that code; so
\* of the overlapping calls carrying the code at most one succeeds.
C21_NoReplay ==
  [][\A p \in Procs :
       (Step(p, "vo_delete") /\ Len(SentTo(proc[p].uid)) = 1)
         => \E i \in FindOtp(otps, proc[p].uid) :
              /\ otps[i].code = proc[p].code
              /\ otps' = Remove(otps, i)
    ]_vars

\* C22: the delete of a verify_otp removes no otp document that holds
\* another code than the one it verified: the only otp document of the uid,
\* when a send_otp wrote it meanwhile, stays stored.
C22_VerifySparesNewCode ==
  [][\A p \in Procs :
       (Step(p, "vo_delete") /\ Cardinality(FindOtp(otps, proc[p].uid)) = 1)
         => OtherCodes(otps', proc[p].uid, proc[p].code)
              = OtherCodes(otps, proc[p].uid, proc[p].code)
    ]_vars

\* C23: with calls that do not overlap, a verify_otp carrying the code the
\* uid's otp document holds passes its comparison however long ago the
\* document was stamped, and the otp documents of a uid change only by the
\* delete of a verify_otp or the delete and insert of a send_otp for that
\* uid; the passing of time removes nothing.
C23_NoExpiry ==
  [][ /\ \A p \in Procs :
           (Step(p, "vo_find")
              /\ \E i \in FindOtp(otps, proc[p].uid) :
                   /\ otps[i].code = proc[p].code
                   /\ now - otps[i].sentTimeStamp \in 0..MaxTicks)
             => /\ proc'[p].pc = "vo_delete"
                /\ otps' = otps
      /\ \A u \in Uids :
           OtpsOf(otps', u) # OtpsOf(otps, u)
             => \E q \in Procs :
                  /\ proc[q].uid = u
                  /\ Step(q, "vo_delete") \/ Step(q, "so_delete") \/ Step(q, "so_insert")
    ]_vars

\* a verify_otp has passed its comparison on a code stamped as long ago as
\* the clock allows
C23_Witness ==
  \E p \in Procs :
    /\ proc[p].pc = "vo_delete"
    /\ \E i \in FindOtp(otps, proc[p].uid) :
         /\ otps[i].code = proc[p].code
         /\ now - otps[i].sentTimeStamp = MaxTicks

\* C24: in every state of the store and for every uid, create_credit_request
\* inserts exactly when get_credit returns None.
C24_StatusAndGateAgree ==
  \A u \in Uids :
    CreateCreditRequestPasses(credits, u, now) <=> GetCreditIsNone(credits, u, now)

\* C25: a request_extension that returns has changed, in the whole store,
\* the extensionRequested field of the request it read and nothing else:
\* every other field of that request, every other request and the otp
\* collection are as they were before its write; a second call in the
\* same state writes the same value again.
C25_ExtensionFrame ==
  [][\A p \in Procs :
       (Step(p, "ex_update") /\ resp'.res = Ok)
         => /\ credits' = [credits EXCEPT ![proc[p].id].extensionRequested = "True"]
            /\ otps' = otps
    ]_vars

\* C26: a core operation that fails leaves the stores as they are: a
\* create_credit_request that raises inserts nothing, a request_extension
\* that raises modifies no request, a verify_otp that raises leaves the otp
\* documents stored, and a send_otp that finds no user hands nothing to the
\* gateway and neither deletes nor inserts an otp document.
C26_FailureHasNoEffect ==
  [][\A p \in Procs :
       /\ (proc[p].pc # "idle" /\ resp'.p = p /\ resp'.res # Ok)
            => /\ credits' = credits
               /\ otps' = otps
               /\ outbox' = outbox
       /\ (Step(p, "so_user") /\ proc[p].uid \notin Users)
            => /\ proc'[p].pc = "idle"
               /\ credits' = credits
               /\ otps' = otps
               /\ outbox' = outbox
    ]_vars

\* a send_otp for a uid without user has returned; the message and the otp
\* document of the other uid are all there is
C26_Witness ==
  /\ resp.op = "send_otp"
  /\ resp.uid \notin Users
  /\ resp.ret = 0
  /\ Len(outbox) = 1 /\ outbox[1].uid # resp.uid
  /\ Len(otps) = 1 /\ otps[1].uid # resp.uid

\* C27: each turn of the enrichment attaches the next user of the page with
\* every credit request stored for its uid and every message stored for
\* its uid.
C27_EnrichmentComplete ==
  [][\A p \in Procs :
       Step(p, "au_related")
         => LET user == proc[p].users[Len(proc[p].related) + 1]
                out == IF proc'[p].pc = "idle" THEN resp'.data.users
                       ELSE proc'[p].related
            IN /\ Len(out) = Len(proc[p].related) + 1
               /\ out[Len(out)].user = user
               /\ out[Len(out)].credits =
                    SelectSeq(credits, LAMBDA c : c.uid = user.uid)
               /\ out[Len(out)].messages =
                    SelectSeq(MessageDocs, LAMBDA m : m.uid = user.uid)
    ]_vars

====
